---- MODULE Spec2Model ----
(***************************************************************************)
(* BookIt API: the booking store, the conflict detector and the booking    *)
(* lifecycle handlers of src/bookit-api/app/api/v1/bookings.py, and the    *)
(* review gate of src/app/api/v1/reviews.py, the booking listing, and the  *)
(* accounts of src/bookit-api/app/api/v1/auth.py and users.py, over the    *)
(* repositories of src/app/repositories and                                *)
(* src/bookit-api/app/repositories.                                        *)
(* Times are whole minutes; a service's duration is a positive number of   *)
(* minutes; HTTP responses are kept as (operation, status code).           *)
(***************************************************************************)
EXTENDS Integers, FiniteSets, Sequences, TLC

\* ---------------------------------------------------------------- bounds
\* Largest booking id the store hands out (the autoincrement key is capped).
MaxBookings == 2
\* Largest service id the catalogue hands out.
MaxServices == 1
\* The clock and the requested start times range over 0..MaxTime.
MaxTime == 1
\* Largest review id the store hands out.
MaxReviews == 2

\* ------------------------------------------------------- program constants
PENDING == "pending"
CONFIRMED == "confirmed"
CANCELLED == "cancelled"
COMPLETED == "completed"
BookingStatus == {PENDING, CONFIRMED, CANCELLED, COMPLETED}

\* users.role: two ordinary users and one administrator
Users == {"alice", "bob", "admin"}
UserRole == [u \in Users |-> IF u = "admin" THEN "admin" ELSE "user"]
\* the users who place bookings; the others only act on bookings that exist
Customers == {"alice", "admin"}

\* Optional[...] = None of the request bodies and of exclude_booking_id.
\* Python tests these with truthiness (`if exclude_booking_id:`), under which
\* None and 0 agree; ids start at 1 and times of the model at 0, so None is
\* kept apart from both as a negative number for times.
None == -1
NoStatus == "none"

Times == 0..MaxTime
Durations == {1, 2}
ServiceIds == 1..(MaxServices + 1)
BookingIds == 1..MaxBookings
ReviewIds == 1..MaxReviews
\* ratings of the request bodies, within ReviewCreate's 1..5
Ratings == {1, 5}

VARIABLES
    services,          \* the services table: set of rows
    bookings,          \* the bookings table: set of rows
    next_service_id,   \* services.id autoincrement
    next_booking_id,   \* bookings.id autoincrement
    now,               \* datetime.utcnow()
    response,          \* the last HTTP response: [op, code], with the
                       \* detail for the reviews router
    inflight,          \* create_booking requests between check and insert
    reviews,           \* the reviews table: set of rows
    next_review_id,    \* reviews.id autoincrement
    review_inflight,   \* create_review requests between check and insert
    users,             \* the users table: set of rows [id, name, email]
    next_user_id       \* users.id autoincrement

review_vars == <<reviews, next_review_id, review_inflight>>
user_vars == <<users, next_user_id>>
vars == <<services, bookings, next_service_id, next_booking_id, now, response,
          inflight, reviews, next_review_id, review_inflight, users, next_user_id>>

Workers == {1, 2}
Idle == [user_id |-> "nobody", service_id |-> 0, start_time |-> 0, end_time |-> 0]
NoReview == [booking_id |-> 0, rating |-> 0]

Reply(op, code) == response' = [op |-> op, code |-> code]
\* a response of the reviews router, with the detail of its HTTPException
ReplyDetail(op, code, detail) ==
    response' = [op |-> op, code |-> code, detail |-> detail]

\* ---------------------------------------------------------- repositories
\* ServiceRepository.get_by_id: the rows with that id (none or one)
service_get_by_id(service_id) == {s \in services : s.id = service_id}

\* BookingRepository.get_by_id
get_by_id(booking_id) == {b \in bookings : b.id = booking_id}

\* check_conflict without its third case (the candidate contains the booking)
check_conflict_two_cases(service_id, start_time, end_time, exclude_booking_id) ==
    \E b \in bookings :
        /\ b.service_id = service_id
        /\ b.status \in {PENDING, CONFIRMED}
        /\ \/ (b.start_time <= start_time /\ b.end_time > start_time)
           \/ (b.start_time < end_time /\ b.end_time >= end_time)
        /\ (exclude_booking_id # 0 => b.id # exclude_booking_id)

\* check_conflict without its first case (the candidate starts inside the booking)
check_conflict_no_start_inside(service_id, start_time, end_time, exclude_booking_id) ==
    \E b \in bookings :
        /\ b.service_id = service_id
        /\ b.status \in {PENDING, CONFIRMED}
        /\ \/ (b.start_time < end_time /\ b.end_time >= end_time)
           \/ (b.start_time >= start_time /\ b.end_time <= end_time)
        /\ (exclude_booking_id # 0 => b.id # exclude_booking_id)

\* check_conflict with closed windows: a booking that ends where the
\* candidate starts counts as a conflict
check_conflict_closed(service_id, start_time, end_time, exclude_booking_id) ==
    \E b \in bookings :
        /\ b.service_id = service_id
        /\ b.status \in {PENDING, CONFIRMED}
        /\ \/ (b.start_time <= start_time /\ b.end_time >= start_time)
           \/ (b.start_time <= end_time /\ b.end_time >= end_time)
           \/ (b.start_time >= start_time /\ b.end_time <= end_time)
        /\ (exclude_booking_id # 0 => b.id # exclude_booking_id)

\* check_conflict without the status filter
check_conflict_any_status(service_id, start_time, end_time, exclude_booking_id) ==
    \E b \in bookings :
        /\ b.service_id = service_id
        /\ \/ (b.start_time <= start_time /\ b.end_time > start_time)
           \/ (b.start_time < end_time /\ b.end_time >= end_time)
           \/ (b.start_time >= start_time /\ b.end_time <= end_time)
        /\ (exclude_booking_id # 0 => b.id # exclude_booking_id)

\* BookingRepository.get_all: the rows that pass the filters given; a filter
\* is added only for an argument that is not None (NoUser, NoStatus, None).
\* The result is a set: its order (start_time descending) is left out.
NoUser == "none"
get_all(user_id, status, from_date, to_date) ==
    {b \in bookings :
        /\ (user_id # NoUser => b.user_id = user_id)
        /\ (status # NoStatus => b.status = status)
        /\ (from_date # None => b.start_time >= from_date)
        /\ (to_date # None => b.start_time <= to_date)}

\* check_conflict without the exclude_booking_id filter (lines 72-75)
check_conflict_no_exclude(service_id, start_time, end_time, exclude_booking_id) ==
    \E b \in bookings :
        /\ b.service_id = service_id
        /\ b.status \in {PENDING, CONFIRMED}
        /\ \/ (b.start_time <= start_time /\ b.end_time > start_time)
           \/ (b.start_time < end_time /\ b.end_time >= end_time)
           \/ (b.start_time >= start_time /\ b.end_time <= end_time)

\* BookingRepository.check_conflict; exclude_booking_id = 0 stands for a
\* falsy argument (None or 0), for which no id filter is added.
check_conflict(service_id, start_time, end_time, exclude_booking_id) ==
    \E b \in bookings :
        /\ b.service_id = service_id
        /\ b.status \in {PENDING, CONFIRMED}
        /\ \/ (b.start_time <= start_time /\ b.end_time > start_time)
           \/ (b.start_time < end_time /\ b.end_time >= end_time)
           \/ (b.start_time >= start_time /\ b.end_time <= end_time)
        /\ (exclude_booking_id # 0 => b.id # exclude_booking_id)

\* BookingRepository.create: the row inserted, status PENDING
NewBooking(user_id, service_id, start_time, end_time) ==
    [id |-> next_booking_id, user_id |-> user_id, service_id |-> service_id,
     start_time |-> start_time, end_time |-> end_time, status |-> PENDING]

\* update that drops the end_time keyword
update_keeps_end_time(booking, start_time, end_time, status) ==
    [booking EXCEPT
        !.start_time = IF start_time # None THEN start_time ELSE @,
        !.status = IF status # NoStatus THEN status ELSE @]

\* update that drops the status keyword
update_drops_status(booking, start_time, end_time, status) ==
    [booking EXCEPT
        !.start_time = IF start_time # None THEN start_time ELSE @,
        !.end_time = IF end_time # None THEN end_time ELSE @]

\* update that writes the column default when no status is given
update_resets_status(booking, start_time, end_time, status) ==
    [booking EXCEPT
        !.start_time = IF start_time # None THEN start_time ELSE @,
        !.end_time = IF end_time # None THEN end_time ELSE @,
        !.status = IF status # NoStatus THEN status ELSE PENDING]

\* BookingRepository.update: setattr for every keyword that is not None
update(booking, start_time, end_time, status) ==
    [booking EXCEPT
        !.start_time = IF start_time # None THEN start_time ELSE @,
        !.end_time = IF end_time # None THEN end_time ELSE @,
        !.status = IF status # NoStatus THEN status ELSE @]

\* BookingCreate.validate_start_time / BookingUpdate.validate_start_time:
\* TRUE when the value is accepted
validate_start_time(v) == ~(v # None /\ v < now)

\* ------------------------------------------------------------- handlers
\* POST /bookings, up to the insert: the status code of the check that
\* rejects the request, 0 when every check passes.  The body is validated
\* (422) before the handler runs; then service lookup (404), is_active
\* (400), check_conflict (409).
create_booking_checks(service_id, start_time) ==
    LET found == service_get_by_id(service_id) IN
    IF ~validate_start_time(start_time) THEN 422
    ELSE IF found = {} THEN 404
    ELSE LET service == CHOOSE s \in found : TRUE
             end_time == start_time + service.duration_minutes
         IN  IF ~service.is_active THEN 400
             ELSE IF check_conflict(service_id, start_time, end_time, 0) THEN 409
             ELSE 0

\* end_time computed by create_booking (line 41) for a service that exists
create_end_time(service_id, start_time) ==
    start_time +
        (CHOOSE s \in service_get_by_id(service_id) : TRUE).duration_minutes

\* POST /bookings, handled without interruption
create_booking(current_user, service_id, start_time) ==
    LET code == create_booking_checks(service_id, start_time) IN
    /\ UNCHANGED user_vars
    /\ UNCHANGED <<services, next_service_id, now, inflight>>
    /\ UNCHANGED review_vars
    /\ IF code # 0
       THEN Reply("create_booking", code) /\ UNCHANGED <<bookings, next_booking_id>>
       ELSE /\ next_booking_id <= MaxBookings
            /\ bookings' = bookings \cup
                   {NewBooking(current_user, service_id, start_time,
                               create_end_time(service_id, start_time))}
            /\ next_booking_id' = next_booking_id + 1
            /\ Reply("create_booking", 201)

\* POST /bookings served by worker w, first half: lines 26-54.  The request
\* that passed its checks waits in inflight[w] for the insert; another
\* worker's request may commit in between (no lock or transaction spans the
\* check and the insert).
create_booking_check(w, current_user, service_id, start_time) ==
    LET code == create_booking_checks(service_id, start_time) IN
    /\ inflight[w] = Idle
    /\ UNCHANGED user_vars
    /\ UNCHANGED <<services, bookings, next_service_id, next_booking_id, now>>
    /\ UNCHANGED review_vars
    /\ IF code # 0
       THEN Reply("create_booking", code) /\ UNCHANGED inflight
       ELSE /\ inflight' = [inflight EXCEPT ![w] =
                    [user_id |-> current_user, service_id |-> service_id,
                     start_time |-> start_time,
                     end_time |-> create_end_time(service_id, start_time)]]
            /\ UNCHANGED response

\* POST /bookings served by worker w, second half: lines 56-64
create_booking_insert(w) ==
    /\ inflight[w] # Idle
    /\ next_booking_id <= MaxBookings
    /\ bookings' = bookings \cup
           {NewBooking(inflight[w].user_id, inflight[w].service_id,
                       inflight[w].start_time, inflight[w].end_time)}
    /\ next_booking_id' = next_booking_id + 1
    /\ inflight' = [inflight EXCEPT ![w] = Idle]
    /\ Reply("create_booking", 201)
    /\ UNCHANGED user_vars
    /\ UNCHANGED <<services, next_service_id, now>>
    /\ UNCHANGED review_vars

\* update_booking line 146, mutated: an administrator reschedules too
reschedules_for_admin(booking, current_user, start_time) ==
    start_time # None /\ (booking.user_id = current_user
                            \/ UserRole[current_user] = "admin")

\* update_booking line 146: the request enters the rescheduling block
reschedules(booking, current_user, start_time) ==
    start_time # None /\ booking.user_id = current_user

\* update_booking line 147, mutated: only a cancelled booking is refused
may_reschedule_completed(booking) == booking.status # CANCELLED

\* update_booking line 147: the booking may be rescheduled
may_reschedule(booking) == booking.status \in {PENDING, CONFIRMED}

\* update_booking line 184, mutated: only a cancelled booking is refused
owner_may_cancel_completed(booking) == booking.status # CANCELLED

\* update_booking line 184: the owner may cancel the booking
owner_may_cancel(booking) == booking.status \in {PENDING, CONFIRMED}

\* PATCH /bookings/{booking_id}; start_time = None and status = NoStatus
\* stand for fields the body leaves out
update_booking(booking_id, current_user, start_time, status) ==
    LET found == get_by_id(booking_id) IN
    /\ UNCHANGED user_vars
    /\ UNCHANGED <<services, next_service_id, next_booking_id, now, inflight>>
    /\ UNCHANGED review_vars
    /\ IF ~validate_start_time(start_time)
       THEN Reply("update_booking", 422) /\ UNCHANGED bookings
       ELSE IF found = {}
       THEN Reply("update_booking", 404) /\ UNCHANGED bookings
       ELSE LET booking == CHOOSE b \in found : TRUE
                is_owner == booking.user_id = current_user
                is_admin == UserRole[current_user] = "admin"
                reschedule == reschedules(booking, current_user, start_time)
                service == CHOOSE s \in service_get_by_id(booking.service_id) : TRUE
                new_end_time == start_time + service.duration_minutes
                \* the row after the rescheduling block (lines 146-175)
                rescheduled == IF reschedule
                               THEN update(booking, start_time, new_end_time, NoStatus)
                               ELSE booking
                Commit(row) == bookings' = (bookings \ {booking}) \cup {row}
            IN  IF ~is_owner /\ ~is_admin
                THEN Reply("update_booking", 403) /\ UNCHANGED bookings
                ELSE IF reschedule /\ ~may_reschedule(booking)
                THEN Reply("update_booking", 400) /\ UNCHANGED bookings
                ELSE IF reschedule /\ check_conflict(booking.service_id, start_time,
                                                     new_end_time, booking.id)
                THEN Reply("update_booking", 409) /\ UNCHANGED bookings
                ELSE IF status = NoStatus
                THEN Commit(rescheduled) /\ Reply("update_booking", 200)
                ELSE IF is_admin
                THEN /\ Commit(update(rescheduled, None, None, status))
                     /\ Reply("update_booking", 200)
                ELSE IF is_owner /\ status = CANCELLED
                THEN IF ~owner_may_cancel(rescheduled)
                     THEN Commit(rescheduled) /\ Reply("update_booking", 400)
                     ELSE /\ Commit(update(rescheduled, None, None, CANCELLED))
                          /\ Reply("update_booking", 200)
                ELSE Commit(rescheduled) /\ Reply("update_booking", 403)

\* get_bookings that lists for everyone as it does for an administrator
get_bookings_unscoped(current_user, status_filter, from_date, to_date) ==
    /\ response' = [op |-> "get_bookings", code |-> 200,
                    body |-> get_all(NoUser, status_filter, from_date, to_date)]
    /\ UNCHANGED user_vars
    /\ UNCHANGED <<services, bookings, next_service_id, next_booking_id, now, inflight>>
    /\ UNCHANGED review_vars

\* GET /bookings: the caller's bookings, every user's for an administrator,
\* filtered by status and by start_time between from_date and to_date
get_bookings(current_user, status_filter, from_date, to_date) ==
    LET user_id == IF UserRole[current_user] = "admin" THEN NoUser ELSE current_user
    IN  /\ response' = [op |-> "get_bookings", code |-> 200,
                        body |-> get_all(user_id, status_filter, from_date, to_date)]
        /\ UNCHANGED user_vars
        /\ UNCHANGED <<services, bookings, next_service_id, next_booking_id, now,
                       inflight>>
        /\ UNCHANGED review_vars

\* get_booking without its authorization check (lines 107-112)
get_booking_unchecked(booking_id, current_user) ==
    /\ UNCHANGED user_vars
    /\ UNCHANGED <<services, bookings, next_service_id, next_booking_id, now, inflight>>
    /\ UNCHANGED review_vars
    /\ IF get_by_id(booking_id) = {}
       THEN Reply("get_booking", 404)
       ELSE Reply("get_booking", 200)

\* GET /bookings/{booking_id}: reads, and answers 200, 404 or 403
get_booking(booking_id, current_user) ==
    LET found == get_by_id(booking_id) IN
    /\ UNCHANGED user_vars
    /\ UNCHANGED <<services, bookings, next_service_id, next_booking_id, now, inflight>>
    /\ UNCHANGED review_vars
    /\ IF found = {}
       THEN Reply("get_booking", 404)
       ELSE LET booking == CHOOSE b \in found : TRUE
            IN  IF booking.user_id # current_user /\ UserRole[current_user] # "admin"
                THEN Reply("get_booking", 403)
                ELSE Reply("get_booking", 200)

\* delete_booking line 226, mutated: a booking that starts now may be deleted
owner_may_delete_at_start(booking) == ~(booking.start_time < now)

\* delete_booking line 226: the owner may delete the booking
owner_may_delete(booking) == ~(booking.start_time <= now)

\* delete_booking whose delete does not cascade to the review
delete_booking_no_cascade(booking_id, current_user) ==
    LET found == get_by_id(booking_id) IN
    /\ UNCHANGED user_vars
    /\ UNCHANGED <<services, next_service_id, next_booking_id, now, inflight>>
    /\ UNCHANGED review_vars
    /\ IF found = {}
       THEN Reply("delete_booking", 404) /\ UNCHANGED bookings
       ELSE LET booking == CHOOSE b \in found : TRUE
                is_owner == booking.user_id = current_user
                is_admin == UserRole[current_user] = "admin"
            IN  IF ~is_owner /\ ~is_admin
                THEN Reply("delete_booking", 403) /\ UNCHANGED bookings
                ELSE IF is_owner /\ ~is_admin /\ booking.start_time <= now
                THEN Reply("delete_booking", 400) /\ UNCHANGED bookings
                ELSE bookings' = bookings \ {booking} /\ Reply("delete_booking", 204)

\* DELETE /bookings/{booking_id}; Booking.review cascades
delete_booking(booking_id, current_user) ==
    LET found == get_by_id(booking_id) IN
    /\ UNCHANGED user_vars
    /\ UNCHANGED <<services, next_service_id, next_booking_id, now, inflight>>
    /\ UNCHANGED <<next_review_id, review_inflight>>
    /\ IF found = {}
       THEN Reply("delete_booking", 404) /\ UNCHANGED <<bookings, reviews>>
       ELSE LET booking == CHOOSE b \in found : TRUE
                is_owner == booking.user_id = current_user
                is_admin == UserRole[current_user] = "admin"
            IN  IF ~is_owner /\ ~is_admin
                THEN Reply("delete_booking", 403) /\ UNCHANGED <<bookings, reviews>>
                ELSE IF is_owner /\ ~is_admin /\ ~owner_may_delete(booking)
                THEN Reply("delete_booking", 400) /\ UNCHANGED <<bookings, reviews>>
                ELSE /\ bookings' = bookings \ {booking}
                     /\ reviews' = {r \in reviews : r.booking_id # booking.id}
                     /\ Reply("delete_booking", 204)

\* POST /services (require_admin)
create_service(admin, duration_minutes, is_active) ==
    /\ UserRole[admin] = "admin"
    /\ next_service_id <= MaxServices
    /\ services' = services \cup {[id |-> next_service_id,
                                   duration_minutes |-> duration_minutes,
                                   is_active |-> is_active]}
    /\ next_service_id' = next_service_id + 1
    /\ Reply("create_service", 201)
    /\ UNCHANGED user_vars
    /\ UNCHANGED <<bookings, next_booking_id, now, inflight>>
    /\ UNCHANGED review_vars

\* PATCH /services/{service_id} (require_admin); duration_minutes = None and
\* is_active = "unset" stand for fields the body leaves out
update_service(admin, service_id, duration_minutes, is_active) ==
    LET found == service_get_by_id(service_id) IN
    /\ UserRole[admin] = "admin"
    /\ UNCHANGED user_vars
    /\ UNCHANGED <<bookings, next_service_id, next_booking_id, now, inflight>>
    /\ UNCHANGED review_vars
    /\ IF found = {}
       THEN Reply("update_service", 404) /\ UNCHANGED services
       ELSE LET service == CHOOSE s \in found : TRUE
                updated == [service EXCEPT
                    !.duration_minutes =
                        IF duration_minutes # None THEN duration_minutes ELSE @,
                    !.is_active =
                        IF is_active # "unset" THEN is_active = "true" ELSE @]
            IN  /\ services' = (services \ {service}) \cup {updated}
                /\ Reply("update_service", 200)

\* DELETE /services/{service_id} (require_admin); Service.bookings cascades
delete_service(admin, service_id) ==
    LET found == service_get_by_id(service_id) IN
    /\ UserRole[admin] = "admin"
    /\ UNCHANGED user_vars
    /\ UNCHANGED <<next_service_id, next_booking_id, now, inflight>>
    /\ UNCHANGED <<next_review_id, review_inflight>>
    /\ IF found = {}
       THEN Reply("delete_service", 404) /\ UNCHANGED <<services, bookings, reviews>>
       ELSE /\ services' = services \ found
            /\ bookings' = {b \in bookings : b.service_id # service_id}
            /\ reviews' = {r \in reviews :
                               \E b \in bookings' : b.id = r.booking_id}
            /\ Reply("delete_service", 204)

\* ------------------------------------------------------------- reviews
\* ReviewRepository.get_by_id
review_get_by_id(review_id) == {r \in reviews : r.id = review_id}

\* ReviewRepository.get_by_booking_id
get_by_booking_id(booking_id) == {r \in reviews : r.booking_id = booking_id}

\* ReviewRepository.create: the row inserted
NewReview(booking_id, rating) ==
    [id |-> next_review_id, booking_id |-> booking_id, rating |-> rating]

\* the details of create_review's HTTPExceptions
BookingNotFound == "Booking not found"
NotYourBooking == "Can only review your own bookings"
NotCompleted == "Can only review completed bookings"
ReviewExists == "Review already exists for this booking"
\* an exception no handler catches (IntegrityError): 500
ServerError == "Internal Server Error"

\* create_review without its status check (lines 40-45)
create_review_checks_no_status(current_user, booking_id) ==
    LET found == get_by_id(booking_id) IN
    IF found = {} THEN [code |-> 404, detail |-> BookingNotFound]
    ELSE LET booking == CHOOSE b \in found : TRUE
         IN  IF booking.user_id # current_user
             THEN [code |-> 403, detail |-> NotYourBooking]
             ELSE IF get_by_booking_id(booking_id) # {}
             THEN [code |-> 400, detail |-> ReviewExists]
             ELSE [code |-> 0, detail |-> ""]

\* create_review with the status check (lines 40-45) ahead of the owner
\* check (lines 33-38)
create_review_checks_status_first(current_user, booking_id) ==
    LET found == get_by_id(booking_id) IN
    IF found = {} THEN [code |-> 404, detail |-> BookingNotFound]
    ELSE LET booking == CHOOSE b \in found : TRUE
         IN  IF booking.status # COMPLETED
             THEN [code |-> 400, detail |-> NotCompleted]
             ELSE IF booking.user_id # current_user
             THEN [code |-> 403, detail |-> NotYourBooking]
             ELSE IF get_by_booking_id(booking_id) # {}
             THEN [code |-> 400, detail |-> ReviewExists]
             ELSE [code |-> 0, detail |-> ""]

\* POST /reviews, up to the insert (lines 25-53): the exception of the check
\* that rejects the request, code 0 when every check passes
create_review_checks(current_user, booking_id) ==
    LET found == get_by_id(booking_id) IN
    IF found = {} THEN [code |-> 404, detail |-> BookingNotFound]
    ELSE LET booking == CHOOSE b \in found : TRUE
         IN  IF booking.user_id # current_user
             THEN [code |-> 403, detail |-> NotYourBooking]
             ELSE IF booking.status # COMPLETED
             THEN [code |-> 400, detail |-> NotCompleted]
             ELSE IF get_by_booking_id(booking_id) # {}
             THEN [code |-> 400, detail |-> ReviewExists]
             ELSE [code |-> 0, detail |-> ""]

\* the insert of ReviewRepository.create is refused by the reviews table:
\* booking_id is unique and a foreign key of bookings.id (models.py line 78)
insert_refused(booking_id) ==
    get_by_booking_id(booking_id) # {} \/ get_by_id(booking_id) = {}

\* POST /reviews, handled without interruption
create_review(current_user, booking_id, rating) ==
    LET check == create_review_checks(current_user, booking_id) IN
    /\ UNCHANGED user_vars
    /\ UNCHANGED <<services, bookings, next_service_id, next_booking_id, now,
                   inflight, review_inflight>>
    /\ IF check.code # 0
       THEN /\ ReplyDetail("create_review", check.code, check.detail)
            /\ UNCHANGED <<reviews, next_review_id>>
       ELSE IF insert_refused(booking_id)
       THEN /\ ReplyDetail("create_review", 500, ServerError)
            /\ UNCHANGED <<reviews, next_review_id>>
       ELSE /\ next_review_id <= MaxReviews
            /\ reviews' = reviews \cup {NewReview(booking_id, rating)}
            /\ next_review_id' = next_review_id + 1
            /\ ReplyDetail("create_review", 201, "")

\* POST /reviews served by worker w, first half: lines 25-53.  The request
\* that passed its checks waits in review_inflight[w] for the insert.
create_review_check(w, current_user, booking_id, rating) ==
    LET check == create_review_checks(current_user, booking_id) IN
    /\ review_inflight[w] = NoReview
    /\ UNCHANGED user_vars
    /\ UNCHANGED <<services, bookings, next_service_id, next_booking_id, now,
                   inflight, reviews, next_review_id>>
    /\ IF check.code # 0
       THEN /\ ReplyDetail("create_review", check.code, check.detail)
            /\ UNCHANGED review_inflight
       ELSE /\ review_inflight' = [review_inflight EXCEPT ![w] =
                    [booking_id |-> booking_id, rating |-> rating]]
            /\ UNCHANGED response

\* POST /reviews served by worker w, second half: line 55.  The commit of
\* a row the table refuses raises IntegrityError, which nothing catches.
create_review_insert(w) ==
    /\ review_inflight[w] # NoReview
    /\ review_inflight' = [review_inflight EXCEPT ![w] = NoReview]
    /\ UNCHANGED user_vars
    /\ UNCHANGED <<services, bookings, next_service_id, next_booking_id, now, inflight>>
    /\ IF insert_refused(review_inflight[w].booking_id)
       THEN /\ ReplyDetail("create_review", 500, ServerError)
            /\ UNCHANGED <<reviews, next_review_id>>
       ELSE /\ next_review_id <= MaxReviews
            /\ reviews' = reviews \cup
                   {NewReview(review_inflight[w].booking_id, review_inflight[w].rating)}
            /\ next_review_id' = next_review_id + 1
            /\ ReplyDetail("create_review", 201, "")

\* update_review that lets an administrator through as delete_review does
update_review_admin_too(review_id, current_user, rating) ==
    LET found == review_get_by_id(review_id) IN
    /\ UNCHANGED user_vars
    /\ UNCHANGED <<services, bookings, next_service_id, next_booking_id, now,
                   inflight, next_review_id, review_inflight>>
    /\ IF found = {}
       THEN ReplyDetail("update_review", 404, "Review not found") /\ UNCHANGED reviews
       ELSE LET review == CHOOSE r \in found : TRUE
                booking == CHOOSE b \in get_by_id(review.booking_id) : TRUE
            IN  IF booking.user_id # current_user /\ UserRole[current_user] # "admin"
                THEN /\ ReplyDetail("update_review", 403,
                                    "Not authorized to update this review")
                     /\ UNCHANGED reviews
                ELSE /\ reviews' = (reviews \ {review}) \cup
                           {[review EXCEPT !.rating =
                                 IF rating # None THEN rating ELSE @]}
                     /\ ReplyDetail("update_review", 200, "")

\* PATCH /reviews/{review_id}; rating = None stands for a field the body
\* leaves out
update_review(review_id, current_user, rating) ==
    LET found == review_get_by_id(review_id) IN
    /\ UNCHANGED user_vars
    /\ UNCHANGED <<services, bookings, next_service_id, next_booking_id, now,
                   inflight, next_review_id, review_inflight>>
    /\ IF found = {}
       THEN ReplyDetail("update_review", 404, "Review not found") /\ UNCHANGED reviews
       ELSE LET review == CHOOSE r \in found : TRUE
                booking == CHOOSE b \in get_by_id(review.booking_id) : TRUE
            IN  IF booking.user_id # current_user
                THEN /\ ReplyDetail("update_review", 403,
                                    "Not authorized to update this review")
                     /\ UNCHANGED reviews
                ELSE /\ reviews' = (reviews \ {review}) \cup
                           {[review EXCEPT !.rating =
                                 IF rating # None THEN rating ELSE @]}
                     /\ ReplyDetail("update_review", 200, "")

\* DELETE /reviews/{review_id}
delete_review(review_id, current_user) ==
    LET found == review_get_by_id(review_id) IN
    /\ UNCHANGED user_vars
    /\ UNCHANGED <<services, bookings, next_service_id, next_booking_id, now,
                   inflight, next_review_id, review_inflight>>
    /\ IF found = {}
       THEN ReplyDetail("delete_review", 404, "Review not found") /\ UNCHANGED reviews
       ELSE LET review == CHOOSE r \in found : TRUE
                booking == CHOOSE b \in get_by_id(review.booking_id) : TRUE
                is_owner == booking.user_id = current_user
                is_admin == UserRole[current_user] = "admin"
            IN  IF ~is_owner /\ ~is_admin
                THEN /\ ReplyDetail("delete_review", 403,
                                    "Not authorized to delete this review")
                     /\ UNCHANGED reviews
                ELSE /\ reviews' = reviews \ {review}
                     /\ ReplyDetail("delete_review", 204, "")

\* the clock advances between requests
\* ------------------------------------------------------------ users
\* the addresses and names requests carry; Unset stands for a field the
\* body of PATCH /users/me leaves out (None)
Emails == {"a@x.io", "b@x.io", "c@x.io"}
Names == {"Ann", "Bo"}
Unset == "unset"
EmailRegistered == "Email already registered"
EmailInUse == "Email already in use"

\* UserRepository.get_by_email
get_by_email(email) == {u \in users : u.email = email}

\* UserRepository.create: the row inserted
NewUser(name, email) == [id |-> next_user_id, name |-> name, email |-> email]

\* the users table refuses a second row with the email: users.email is
\* unique (models.py line 26)
email_refused(user_id, email) ==
    \E u \in users : u.email = email /\ u.id # user_id

\* UserRepository.update: name and email are set when given
user_update(user, name, email) ==
    [user EXCEPT !.name = IF name # Unset THEN name ELSE @,
                 !.email = IF email # Unset THEN email ELSE @]

\* POST /auth/register
register(name, email) ==
    /\ UNCHANGED <<services, bookings, next_service_id, next_booking_id, now, inflight>>
    /\ UNCHANGED review_vars
    /\ IF get_by_email(email) # {}
       THEN ReplyDetail("register", 400, EmailRegistered) /\ UNCHANGED user_vars
       ELSE IF email_refused(0, email)
       THEN ReplyDetail("register", 500, ServerError) /\ UNCHANGED user_vars
       ELSE /\ users' = users \cup {NewUser(name, email)}
            /\ next_user_id' = next_user_id + 1
            /\ ReplyDetail("register", 201, "")

\* update_current_user without the check of lines 29-35
update_current_user_unchecked(user_id, name, email) ==
    /\ \E current_user \in users : current_user.id = user_id
    /\ UNCHANGED <<services, bookings, next_service_id, next_booking_id, now, inflight>>
    /\ UNCHANGED review_vars
    /\ UNCHANGED next_user_id
    /\ LET current_user == CHOOSE u \in users : u.id = user_id
       IN  IF email # Unset /\ email_refused(user_id, email)
           THEN ReplyDetail("update_current_user", 500, ServerError) /\ UNCHANGED users
           ELSE /\ users' = (users \ {current_user}) \cup
                                {user_update(current_user, name, email)}
                /\ ReplyDetail("update_current_user", 200, "")

\* PATCH /users/me of the stored user the token names
update_current_user(user_id, name, email) ==
    /\ \E current_user \in users : current_user.id = user_id
    /\ UNCHANGED <<services, bookings, next_service_id, next_booking_id, now, inflight>>
    /\ UNCHANGED review_vars
    /\ UNCHANGED next_user_id
    /\ LET current_user == CHOOSE u \in users : u.id = user_id
           existing_user == IF email # Unset THEN get_by_email(email) ELSE {}
       IN  IF \E e \in existing_user : e.id # current_user.id
           THEN ReplyDetail("update_current_user", 400, EmailInUse) /\ UNCHANGED users
           ELSE IF email # Unset /\ email_refused(user_id, email)
           THEN ReplyDetail("update_current_user", 500, ServerError) /\ UNCHANGED users
           ELSE /\ users' = (users \ {current_user}) \cup
                                {user_update(current_user, name, email)}
                /\ ReplyDetail("update_current_user", 200, "")

Tick ==
    /\ now < MaxTime
    /\ now' = now + 1
    /\ UNCHANGED user_vars
    /\ UNCHANGED <<services, bookings, next_service_id, next_booking_id, response, inflight>>
    /\ UNCHANGED review_vars

Init ==
    /\ services = {}
    /\ bookings = {}
    /\ next_service_id = 1
    /\ next_booking_id = 1
    /\ now = 0
    /\ response = [op |-> "none", code |-> 0]
    /\ inflight = [w \in Workers |-> Idle]
    /\ reviews = {}
    /\ next_review_id = 1
    /\ review_inflight = [w \in Workers |-> NoReview]
    /\ users = {}
    /\ next_user_id = 1

Next ==
    \/ \E u \in Customers, s \in ServiceIds, t \in Times : create_booking(u, s, t)
    \/ \E id \in BookingIds, u \in Users, t \in Times \cup {None},
          st \in BookingStatus \cup {NoStatus} : update_booking(id, u, t, st)
    \/ \E id \in BookingIds, u \in Users : get_booking(id, u)
    \/ \E id \in BookingIds, u \in Users : delete_booking(id, u)
    \/ \E a \in Users, d \in Durations, act \in BOOLEAN : create_service(a, d, act)
    \/ \E a \in Users, s \in ServiceIds, d \in Durations \cup {None},
          act \in {"unset", "true", "false"} : update_service(a, s, d, act)
    \/ \E a \in Users, s \in ServiceIds : delete_service(a, s)
    \/ Tick

Spec == Init /\ [][Next]_vars

\* Requests served by several workers at once: a create_booking request is
\* two steps, and the other requests commit between them.
ConcTimes == 0..(MaxTime + 1)
ConcNext ==
    \/ \E w \in Workers, u \in Customers, s \in ServiceIds, t \in ConcTimes :
          create_booking_check(w, u, s, t)
    \/ \E w \in Workers : create_booking_insert(w)
    \/ \E id \in BookingIds, u \in Customers :
          update_booking(id, u, None, CANCELLED)
    \/ \E a \in Users, d \in Durations : create_service(a, d, TRUE)
    \/ Tick

ConcSpec == Init /\ [][ConcNext]_vars

\* The review gate over the booking lifecycle: bookings are created on a
\* service, their status is changed, they and their service are deleted, and
\* reviews are created, updated and deleted; requests are handled one at a
\* time.
ReviewNext ==
    \/ \E a \in Users : create_service(a, 1, TRUE)
    \/ \E u \in Customers, s \in ServiceIds, t \in Times : create_booking(u, s, t)
    \/ \E id \in BookingIds, u \in Users, st \in BookingStatus :
          update_booking(id, u, None, st)
    \/ \E id \in BookingIds, u \in Users : delete_booking(id, u)
    \/ \E a \in Users, s \in ServiceIds : delete_service(a, s)
    \/ \E u \in Users, id \in BookingIds, r \in Ratings : create_review(u, id, r)
    \/ \E id \in ReviewIds, u \in Users, r \in Ratings \cup {None} :
          update_review(id, u, r)
    \/ \E id \in ReviewIds, u \in Users : delete_review(id, u)
    \/ Tick

ReviewSpec == Init /\ [][ReviewNext]_vars

\* The review gate served by several workers at once: a create_review
\* request is two steps, and the other requests commit between them.
ReviewConcNext ==
    \/ \E a \in Users : create_service(a, 1, TRUE)
    \/ \E u \in Customers : create_booking(u, 1, 0)
    \/ \E id \in BookingIds, a \in Users, st \in {PENDING, COMPLETED} :
          UserRole[a] = "admin" /\ update_booking(id, a, None, st)
    \/ \E id \in BookingIds, a \in Users :
          UserRole[a] = "admin" /\ delete_booking(id, a)
    \/ \E w \in Workers, u \in Customers, id \in BookingIds, r \in Ratings :
          create_review_check(w, u, id, r)
    \/ \E w \in Workers : create_review_insert(w)
    \/ \E id \in ReviewIds, u \in Customers : delete_review(id, u)

ReviewConcSpec == Init /\ [][ReviewConcNext]_vars

\* The conflict detector on its own, over any bookings table: rows are
\* stored one by one, each any row that satisfies check_time_valid
\* (end_time > start_time), up to MaxBookings of them; then check_conflict
\* is asked once, with any service id, any interval with start < end and any
\* exclude_booking_id (0 for None).  The query and its answer are kept in
\* response.
ConflictTimes == 0..(MaxTime + 2)

\* a row of the bookings table, whatever requests wrote it
store_row(service_id, start_time, end_time, status) ==
    /\ response.op = "none"
    /\ next_booking_id <= MaxBookings
    /\ end_time > start_time
    /\ bookings' = bookings \cup
           {[NewBooking("alice", service_id, start_time, end_time)
                EXCEPT !.status = status]}
    /\ next_booking_id' = next_booking_id + 1
    /\ UNCHANGED user_vars
    /\ UNCHANGED <<services, next_service_id, now, response, inflight>>
    /\ UNCHANGED review_vars

conflict_query(service_id, start_time, end_time, exclude_booking_id) ==
    /\ response.op = "none"
    /\ start_time < end_time
    /\ response' = [op |-> "check_conflict",
                    code |-> IF check_conflict(service_id, start_time, end_time,
                                               exclude_booking_id) THEN 1 ELSE 0,
                    service_id |-> service_id, start_time |-> start_time,
                    end_time |-> end_time,
                    exclude_booking_id |-> exclude_booking_id]
    /\ UNCHANGED user_vars
    /\ UNCHANGED <<services, bookings, next_service_id, next_booking_id, now, inflight>>
    /\ UNCHANGED review_vars

ConflictNext ==
    \/ \E s \in ServiceIds, st \in ConflictTimes, en \in ConflictTimes,
          status \in BookingStatus : store_row(s, st, en, status)
    \/ \E s \in ServiceIds, st \in ConflictTimes, en \in ConflictTimes,
          ex \in 0..MaxBookings : conflict_query(s, st, en, ex)

ConflictSpec == Init /\ [][ConflictNext]_vars

\* Listing: bookings of several users are created on one service, an
\* administrator changes their status, and anyone lists with any filters.
ListNext ==
    \/ \E a \in Users : create_service(a, 1, TRUE)
    \/ \E u \in Customers, t \in Times : create_booking(u, 1, t)
    \/ \E id \in BookingIds, a \in Users, st \in BookingStatus :
          UserRole[a] = "admin" /\ update_booking(id, a, None, st)
    \/ \E u \in Users, st \in BookingStatus \cup {NoStatus},
          from_date \in Times \cup {None}, to_date \in Times \cup {None} :
          get_bookings(u, st, from_date, to_date)

ListSpec == Init /\ [][ListNext]_vars

\* Accounts: anyone registers, and a registered user updates their profile.
UserIds == 1..Cardinality(Emails)
UserNext ==
    \/ \E name \in Names, email \in Emails : register(name, email)
    \/ \E id \in UserIds, name \in Names \cup {Unset}, email \in Emails \cup {Unset} :
          update_current_user(id, name, email)

UserSpec == Init /\ [][UserNext]_vars

\* ------------------------------------------------------------ properties
Active(b) == b.status \in {PENDING, CONFIRMED}
\* half-open windows [s1, e1) and [s2, e2) share a minute
Overlap(s1, e1, s2, e2) == s1 < e2 /\ s2 < e1

\* C1: no two distinct pending-or-confirmed bookings on one service have
\* overlapping half-open windows, whatever requests owners and
\* administrators have issued.
C1_NoDoubleBooking ==
    \A a \in bookings, b \in bookings :
        (a.id # b.id /\ a.service_id = b.service_id /\ Active(a) /\ Active(b))
            => ~Overlap(a.start_time, a.end_time, b.start_time, b.end_time)

\* C2: the conflict check and the insert of a create_booking request are
\* atomic: when a request's booking is inserted, the window it checked is
\* still free, so two concurrent overlapping requests never both persist.
C2_CheckAndInsertAtomic ==
    [][\A w \in Workers :
          (inflight[w] # Idle /\ inflight'[w] = Idle)
              => ~\E b \in bookings :
                    /\ b.service_id = inflight[w].service_id
                    /\ Active(b)
                    /\ Overlap(b.start_time, b.end_time,
                               inflight[w].start_time, inflight[w].end_time)]_vars

\* C4: check_conflict answers true exactly when some stored booking of the
\* service, pending or confirmed and not the excluded one, overlaps the
\* candidate interval by the half-open test b.start < end /\ start < b.end.
C4_ConflictIffOverlap ==
    response.op = "check_conflict" =>
        (response.code = 1 <=>
            \E b \in bookings :
                /\ b.service_id = response.service_id
                /\ b.status \in {PENDING, CONFIRMED}
                /\ b.id # response.exclude_booking_id
                /\ b.start_time < response.end_time
                /\ response.start_time < b.end_time)

\* C4 witness: a query that the candidate containing a stored booking
\* answers true, with another overlapping booking excluded.
C4_Witness ==
    /\ response.op = "check_conflict"
    /\ response.code = 1
    /\ response.exclude_booking_id # 0
    /\ \E b \in bookings :
          /\ b.id = response.exclude_booking_id
          /\ b.service_id = response.service_id /\ Active(b)
          /\ Overlap(b.start_time, b.end_time, response.start_time, response.end_time)
    /\ \E b \in bookings :
          /\ b.id # response.exclude_booking_id
          /\ b.service_id = response.service_id /\ Active(b)
          /\ response.start_time < b.start_time /\ b.end_time < response.end_time

ServiceExists(s) == \E x \in services : x.id = s
ServiceActive(s) == \E x \in services : x.id = s /\ x.is_active
DurationOf(s) == (CHOOSE x \in services : x.id = s).duration_minutes
\* another pending or confirmed booking of service s overlaps [start, end)
Busy(s, start, end, self) ==
    \E c \in bookings :
        /\ c.id # self /\ c.service_id = s /\ Active(c)
        /\ Overlap(c.start_time, c.end_time, start, end)

\* C3 as stated: every create_booking request, and every owner's reschedule,
\* whose window overlaps another pending or confirmed booking of the service
\* is answered 409 and changes no booking.
C3_OverlapAlwaysConflict ==
    [][/\ response'.op = "create_booking" =>
            \A u \in Customers, s \in ServiceIds, t \in Times :
                (/\ ServiceExists(s)
                 /\ Busy(s, t, t + DurationOf(s), 0)
                 /\ create_booking(u, s, t))
                    => response'.code = 409 /\ bookings' = bookings
       /\ response'.op = "update_booking" =>
            \A b \in bookings, t \in Times :
                (/\ Busy(b.service_id, t, t + DurationOf(b.service_id), b.id)
                 /\ update_booking(b.id, b.user_id, t, NoStatus))
                    => response'.code = 409 /\ bookings' = bookings]_vars

\* C3 amended: such a request never succeeds and changes no booking; it is
\* answered 409 when the start time passes validation (start >= now) and
\* the service is active (create) or the booking itself is pending or
\* confirmed (reschedule), and 422 or 400 by the earlier check otherwise.
C3_OverlapConflictAfterEarlierChecks ==
    [][/\ response'.op = "create_booking" =>
            \A u \in Customers, s \in ServiceIds, t \in Times :
                (/\ ServiceExists(s)
                 /\ Busy(s, t, t + DurationOf(s), 0)
                 /\ create_booking(u, s, t))
                    => /\ bookings' = bookings
                       /\ response'.code =
                            IF t < now THEN 422
                            ELSE IF ~ServiceActive(s) THEN 400 ELSE 409
       /\ response'.op = "update_booking" =>
            \A b \in bookings, t \in Times :
                (/\ Busy(b.service_id, t, t + DurationOf(b.service_id), b.id)
                 /\ update_booking(b.id, b.user_id, t, NoStatus))
                    => /\ bookings' = bookings
                       /\ response'.code =
                            IF t < now THEN 422
                            ELSE IF ~Active(b) THEN 400 ELSE 409]_vars

\* C3 witness: a request was answered 409 while a pending or confirmed
\* booking holds a window on an active service.
C3_Witness ==
    /\ response.code = 409
    /\ response.op \in {"create_booking", "update_booking"}
    /\ \E b \in bookings : Active(b) /\ ServiceActive(b.service_id)

\* C5: every stored booking has end_time > start_time, and a booking that a
\* create_booking or an update_booking request has just written has
\* end_time = start_time + the service's duration_minutes of that moment; a
\* successful reschedule to t stores start_time = t.
C5_EndTimeFromDuration ==
    /\ [](\A b \in bookings : b.end_time > b.start_time)
    /\ [][/\ (response'.op = "create_booking" /\ response'.code = 201) =>
                \A c \in bookings' \ bookings :
                    c.end_time = c.start_time + DurationOf(c.service_id)
          /\ response'.op = "update_booking" =>
                /\ \A b \in bookings, c \in bookings' :
                      (/\ b.id = c.id
                       /\ (b.start_time # c.start_time \/ b.end_time # c.end_time))
                          => c.end_time = c.start_time + DurationOf(c.service_id)
                /\ response'.code = 200 =>
                      \A b \in bookings, t \in Times :
                          update_booking(b.id, b.user_id, t, NoStatus) =>
                              \E c \in bookings' :
                                  /\ c.id = b.id /\ c.start_time = t
                                  /\ c.end_time = t + DurationOf(b.service_id)]_vars

\* C5 witness: a booking rescheduled after its service's duration changed,
\* stored with the new duration.
C5_Witness ==
    /\ response = [op |-> "update_booking", code |-> 200]
    /\ \E b \in bookings, c \in bookings :
          /\ b.service_id = c.service_id
          /\ b.end_time - b.start_time # c.end_time - c.start_time
          /\ b.end_time - b.start_time = DurationOf(b.service_id)
          /\ b.id < c.id

\* C6: a create_booking request for an existing, active service with a
\* start time in the future succeeds whenever no pending or confirmed
\* booking of the service overlaps its window (a window that starts where
\* another ends does not overlap); it persists exactly one new booking, of
\* the requester, pending, with that window.
C6_CreateSucceedsWhenFree ==
    [][response'.op = "create_booking" =>
          \A u \in Customers, s \in ServiceIds, t \in Times :
              (/\ ServiceActive(s)
               /\ t > now
               /\ ~Busy(s, t, t + DurationOf(s), 0)
               /\ create_booking(u, s, t))
                  => /\ response'.code = 201
                     /\ \E nb \in bookings' :
                           /\ \A b \in bookings : b.id # nb.id
                           /\ bookings' = bookings \cup {nb}
                           /\ nb.user_id = u /\ nb.service_id = s
                           /\ nb.status = PENDING
                           /\ nb.start_time = t
                           /\ nb.end_time = t + DurationOf(s)]_vars

\* C6 witness: the booking just created starts exactly where a pending or
\* confirmed booking of the same service ends.
C6_Witness ==
    /\ response = [op |-> "create_booking", code |-> 201]
    /\ \E a \in bookings, nb \in bookings :
          /\ nb.id = next_booking_id - 1 /\ nb.status = PENDING
          /\ a.id # nb.id /\ a.service_id = nb.service_id /\ Active(a)
          /\ a.end_time = nb.start_time
          /\ nb.start_time > now

\* C7: an owner's cancel of their own pending booking leaves it cancelled,
\* and a cancelled or completed booking does not block: a create_booking
\* request for its service and its very window succeeds when the service is
\* active, the start is in the future and no other pending or confirmed
\* booking overlaps the window.
C7_CancelledDoesNotBlock ==
    [][/\ response'.op = "update_booking" =>
            \A b \in bookings :
                (b.status = PENDING /\ update_booking(b.id, b.user_id, None, CANCELLED))
                    => /\ response'.code = 200
                       /\ bookings' = (bookings \ {b}) \cup {[b EXCEPT !.status = CANCELLED]}
       /\ response'.op = "create_booking" =>
            \A u \in Customers, b \in bookings :
                (/\ b.status \in {CANCELLED, COMPLETED}
                 /\ ServiceActive(b.service_id)
                 /\ b.start_time > now
                 /\ b.end_time = b.start_time + DurationOf(b.service_id)
                 /\ ~Busy(b.service_id, b.start_time, b.end_time, b.id)
                 /\ create_booking(u, b.service_id, b.start_time))
                    => /\ response'.code = 201
                       /\ \E nb \in bookings' \ bookings :
                             /\ nb.service_id = b.service_id
                             /\ nb.start_time = b.start_time
                             /\ nb.end_time = b.end_time
                             /\ nb.status = PENDING]_vars

\* C7 witness: a booking was just created over the window of a cancelled
\* booking of the same service, for another user.
C7_Witness ==
    /\ response = [op |-> "create_booking", code |-> 201]
    /\ \E b \in bookings, nb \in bookings :
          /\ b.status = CANCELLED /\ UserRole[b.user_id] = "user"
          /\ nb.id = next_booking_id - 1 /\ nb.status = PENDING
          /\ nb.id # b.id /\ nb.user_id # b.user_id
          /\ nb.service_id = b.service_id
          /\ nb.start_time = b.start_time /\ nb.end_time = b.end_time
          /\ nb.start_time > now

\* C8: concurrent create_booking requests with disjoint windows all
\* succeed: a request for an active service with a start time in the future
\* passes its checks whenever no stored pending or confirmed booking of the
\* service overlaps its window, whatever the other workers have in flight,
\* and a request that passed its checks is inserted as it was checked.
C8_DisjointConcurrentSucceed ==
    [][/\ \A w \in Workers, u \in Customers, s \in ServiceIds, t \in ConcTimes :
            (/\ ServiceActive(s)
             /\ t > now
             /\ ~Busy(s, t, t + DurationOf(s), 0)
             /\ create_booking_check(w, u, s, t))
                => inflight'[w] = [user_id |-> u, service_id |-> s,
                                   start_time |-> t,
                                   end_time |-> t + DurationOf(s)]
       /\ \A w \in Workers :
            (inflight[w] # Idle /\ inflight'[w] = Idle)
                => /\ response' = [op |-> "create_booking", code |-> 201]
                   /\ \E nb \in bookings' :
                         /\ \A b \in bookings : b.id # nb.id
                         /\ bookings' = bookings \cup {nb}
                         /\ nb.user_id = inflight[w].user_id
                         /\ nb.service_id = inflight[w].service_id
                         /\ nb.start_time = inflight[w].start_time
                         /\ nb.end_time = inflight[w].end_time
                         /\ nb.status = PENDING]_vars

\* C8 witness: two requests for disjoint windows of the same service have
\* both passed their checks and neither is inserted yet.
C8_Witness ==
    /\ \A w \in Workers : inflight[w] # Idle
    /\ inflight[1].service_id = inflight[2].service_id
    /\ ~Overlap(inflight[1].start_time, inflight[1].end_time,
                inflight[2].start_time, inflight[2].end_time)
    /\ inflight[1].start_time > now /\ inflight[2].start_time > now
    /\ next_booking_id < MaxBookings

\* C9 as stated: a create_booking request for a service that does not
\* exist, or is inactive, or with a start time that is not strictly in the
\* future (start <= now), fails with the code of one of the conditions that
\* hold (404, 400, 422) and persists no booking.
C9_CreateRejections ==
    [][response'.op = "create_booking" =>
          \A u \in Customers, s \in ServiceIds, t \in Times :
              (/\ (~ServiceExists(s) \/ ~ServiceActive(s) \/ t <= now)
               /\ create_booking(u, s, t))
                  => /\ bookings' = bookings
                     /\ \/ response'.code = 404 /\ ~ServiceExists(s)
                        \/ response'.code = 400 /\ ServiceExists(s) /\ ~ServiceActive(s)
                        \/ response'.code = 422 /\ t <= now]_vars

TERMINAL == {CANCELLED, COMPLETED}

\* C10 as stated: once a booking is cancelled or completed, no request
\* changes its status.
C10_TerminalForEveryone ==
    [][\A b \in bookings, c \in bookings' :
          (b.id = c.id /\ b.status \in TERMINAL) => c.status = b.status]_vars

\* C10 amended: once a booking is cancelled or completed, no request of a
\* user who is not an administrator changes its status; a step that changes
\* it is an administrator's successful update_booking request.
C10_TerminalForNonAdmins ==
    [][\A b \in bookings, c \in bookings' :
          (b.id = c.id /\ b.status \in TERMINAL /\ c.status # b.status)
              => /\ response' = [op |-> "update_booking", code |-> 200]
                 /\ \E a \in Users, t \in Times \cup {None} :
                       /\ UserRole[a] = "admin"
                       /\ update_booking(b.id, a, t, c.status)
                 /\ ~\E u \in Users, t \in Times \cup {None},
                        st \in BookingStatus \cup {NoStatus} :
                       /\ UserRole[u] # "admin"
                       /\ update_booking(b.id, u, t, st)]_vars

\* C10 witness: an owner's request on their cancelled or completed booking
\* was refused with 400, every stored booking being cancelled or completed
\* and owned by an ordinary user.
C10_Witness ==
    /\ response = [op |-> "update_booking", code |-> 400]
    /\ bookings # {}
    /\ \A b \in bookings : b.status \in TERMINAL /\ UserRole[b.user_id] = "user"
    /\ \E b \in bookings : b.status = COMPLETED

\* The handlers are functions of the stored state and the request: a claim
\* about what a request does is stated, in every reachable state, of the
\* step the handler takes from that state (ENABLED (handler /\ outcome')).

\* C11: an administrator's status-change request on an existing booking,
\* whatever the booking's status, is answered 200 and sets the status to the
\* requested one, with no transition check and no conflict check; nothing
\* else of the booking and no other booking changes.  A start_time in the
\* body of an administrator who is not the owner changes nothing.
C11_AdminSetsAnyStatus ==
    \A b \in bookings, a \in Users, st \in BookingStatus, t \in Times \cup {None} :
        (/\ UserRole[a] = "admin"
         /\ (t = None \/ (b.user_id # a /\ t >= now)))
            => ENABLED (/\ update_booking(b.id, a, t, st)
                        /\ response'.code = 200
                        /\ bookings' = (bookings \ {b}) \cup
                               {[b EXCEPT !.status = st]})

\* C11 witness: an administrator has put a cancelled or completed booking
\* back to pending or confirmed over the window of another pending or
\* confirmed booking of the service.
C11_Witness ==
    /\ response = [op |-> "update_booking", code |-> 200]
    /\ \E a \in bookings, b \in bookings :
          /\ a.id # b.id /\ a.service_id = b.service_id
          /\ Active(a) /\ Active(b)
          /\ UserRole[a.user_id] = "user"
          /\ Overlap(a.start_time, a.end_time, b.start_time, b.end_time)

\* C12 as stated: a status-change request of an owner who is not an
\* administrator succeeds only for cancelled on a pending or confirmed
\* booking, which becomes cancelled; every other such request is answered
\* 400 (InvalidState) and changes nothing.
C12_OwnerStatusElseInvalidState ==
    \A b \in bookings, st \in BookingStatus :
        UserRole[b.user_id] # "admin" =>
            ENABLED (/\ update_booking(b.id, b.user_id, None, st)
                     /\ IF st = CANCELLED /\ Active(b)
                        THEN /\ response'.code = 200
                             /\ bookings' = (bookings \ {b}) \cup
                                    {[b EXCEPT !.status = CANCELLED]}
                        ELSE response'.code = 400 /\ bookings' = bookings)

\* C12 amended: such a request succeeds only for cancelled on a pending or
\* confirmed booking, which becomes cancelled; a request for cancelled on a
\* cancelled or completed booking is answered 400 (InvalidState), a request
\* for any other status 403 (Forbidden), and neither changes the status.
\* With a start_time in the body too, the status changes only when the
\* answer is 200, and then to cancelled from pending or confirmed.
C12_OwnerStatusCancelOnly ==
    \A b \in bookings, st \in BookingStatus :
        UserRole[b.user_id] # "admin" =>
            /\ ENABLED (/\ update_booking(b.id, b.user_id, None, st)
                        /\ IF st = CANCELLED /\ Active(b)
                           THEN /\ response'.code = 200
                                /\ bookings' = (bookings \ {b}) \cup
                                       {[b EXCEPT !.status = CANCELLED]}
                           ELSE /\ response'.code = IF st = CANCELLED THEN 400 ELSE 403
                                /\ bookings' = bookings)
            /\ \A t \in Times :
                  ENABLED (/\ update_booking(b.id, b.user_id, t, st)
                           /\ \E c \in bookings' :
                                 /\ c.id = b.id
                                 /\ c.status = IF response'.code = 200
                                               THEN CANCELLED ELSE b.status
                                 /\ response'.code = 200
                                       => st = CANCELLED /\ Active(b))

\* C12 witness: a request was refused with 403 while every stored booking
\* is owned by an ordinary user and confirmed.
C12_Witness ==
    /\ response = [op |-> "update_booking", code |-> 403]
    /\ bookings # {}
    /\ \A b \in bookings : b.status = CONFIRMED /\ UserRole[b.user_id] = "user"

\* C13 as stated: an owner's reschedule request on a cancelled or completed
\* booking is answered 400 (InvalidState) and changes no booking.
C13_RescheduleTerminalInvalidState ==
    \A b \in bookings, t \in Times :
        b.status \in TERMINAL =>
            ENABLED (/\ update_booking(b.id, b.user_id, t, NoStatus)
                     /\ response'.code = 400
                     /\ bookings' = bookings)

\* C13 amended: an owner's reschedule request on a cancelled or completed
\* booking never succeeds and changes no booking, whatever status the body
\* also carries; it is answered 400 (InvalidState) when the start time
\* passes validation (start >= now) and 422 by the validator otherwise.
C13_RescheduleTerminalRefused ==
    \A b \in bookings, t \in Times, st \in BookingStatus \cup {NoStatus} :
        b.status \in TERMINAL =>
            ENABLED (/\ update_booking(b.id, b.user_id, t, st)
                     /\ response'.code = IF t < now THEN 422 ELSE 400
                     /\ bookings' = bookings)

\* C13 witness: a request was refused with 400 while every stored booking
\* is cancelled, owned by an ordinary user and still in the future.
C13_Witness ==
    /\ response = [op |-> "update_booking", code |-> 400]
    /\ bookings # {}
    /\ \A b \in bookings :
          b.status = CANCELLED /\ UserRole[b.user_id] = "user" /\ b.start_time > now

\* C14: a PATCH carrying only start_time that is answered 200 changes at
\* most the start_time and end_time of the booking it names: the booking's
\* status, owner, service and id, and every other booking, are unchanged.
C14_RescheduleFrame ==
    \A b \in bookings, u \in Users, t \in Times :
        ENABLED (/\ update_booking(b.id, u, t, NoStatus)
                 /\ response'.code = 200 =>
                       \E c \in bookings' :
                           /\ c.id = b.id /\ c.status = b.status
                           /\ c.user_id = b.user_id /\ c.service_id = b.service_id
                           /\ bookings' \ {c} = bookings \ {b}
                           /\ u = b.user_id => c.start_time = t)

\* C14 witness: a confirmed booking of an ordinary user, rescheduled after
\* its service's duration changed, is still confirmed.
C14_Witness ==
    /\ response = [op |-> "update_booking", code |-> 200]
    /\ \E b \in bookings, c \in bookings :
          /\ b.service_id = c.service_id /\ b.id < c.id
          /\ b.status = CONFIRMED /\ UserRole[b.user_id] = "user"
          /\ b.end_time - b.start_time = DurationOf(b.service_id)
          /\ b.end_time - b.start_time # c.end_time - c.start_time

\* C15: a PATCH carrying start_time from a user who is not the booking's
\* owner (an administrator or another user) never changes the booking's
\* start_time or end_time, whatever else the body carries.
C15_RescheduleOwnerOnly ==
    \A b \in bookings, u \in Users, t \in Times, st \in BookingStatus \cup {NoStatus} :
        u # b.user_id =>
            ENABLED (/\ update_booking(b.id, u, t, st)
                     /\ \E c \in bookings' :
                           /\ c.id = b.id
                           /\ c.start_time = b.start_time
                           /\ c.end_time = b.end_time)

\* C15 witness: an administrator's request on an ordinary user's booking
\* was answered 200, the booking still having the length it was created
\* with though its service's duration has changed since.
C15_Witness ==
    /\ response = [op |-> "update_booking", code |-> 200]
    /\ Cardinality(bookings) = 1
    /\ \E b \in bookings :
          /\ UserRole[b.user_id] = "user" /\ b.status = COMPLETED
          /\ ServiceExists(b.service_id)
          /\ b.end_time - b.start_time # DurationOf(b.service_id)

\* C16 as stated: a user who is neither the owner of a booking nor an
\* administrator is answered 403 on every read, update and delete request
\* for the booking, and no booking changes.
C16_ThirdPartyForbidden ==
    \A b \in bookings, u \in Users :
        (u # b.user_id /\ UserRole[u] # "admin") =>
            /\ ENABLED (/\ get_booking(b.id, u)
                        /\ response'.code = 403 /\ bookings' = bookings)
            /\ ENABLED (/\ delete_booking(b.id, u)
                        /\ response'.code = 403 /\ bookings' = bookings)
            /\ \A t \in Times \cup {None}, st \in BookingStatus \cup {NoStatus} :
                  ENABLED (/\ update_booking(b.id, u, t, st)
                           /\ response'.code = 403 /\ bookings' = bookings)

\* C16 amended: such a user is answered 403 on every read and delete request
\* for the booking and on every update request whose body passes validation;
\* an update request with a start time in the past is answered 422 by the
\* validator before the handler runs; no booking changes in any case.
C16_ThirdPartyRefused ==
    \A b \in bookings, u \in Users :
        (u # b.user_id /\ UserRole[u] # "admin") =>
            /\ ENABLED (/\ get_booking(b.id, u)
                        /\ response'.code = 403 /\ bookings' = bookings)
            /\ ENABLED (/\ delete_booking(b.id, u)
                        /\ response'.code = 403 /\ bookings' = bookings)
            /\ \A t \in Times \cup {None}, st \in BookingStatus \cup {NoStatus} :
                  ENABLED (/\ update_booking(b.id, u, t, st)
                           /\ response'.code =
                                 IF t # None /\ t < now THEN 422 ELSE 403
                           /\ bookings' = bookings)

\* C16 witness: a read of a stored booking was answered 403.
C16_Witness ==
    /\ response = [op |-> "get_booking", code |-> 403]
    /\ \E b \in bookings : UserRole[b.user_id] = "admin"
    /\ \E b \in bookings : UserRole[b.user_id] = "user"

\* C17: a delete request of the owner of a booking, not an administrator,
\* succeeds (204, the booking is removed) exactly when now < start_time and
\* is answered 400 (InvalidState), the booking staying, once
\* now >= start_time; an administrator's delete request succeeds for every
\* stored booking, whatever its start time and status.
C17_DeleteRule ==
    \A b \in bookings :
        /\ UserRole[b.user_id] # "admin" =>
              ENABLED (/\ delete_booking(b.id, b.user_id)
                       /\ IF now < b.start_time
                          THEN response'.code = 204 /\ bookings' = bookings \ {b}
                          ELSE response'.code = 400 /\ bookings' = bookings)
        /\ \A a \in Users :
              UserRole[a] = "admin" =>
                  ENABLED (/\ delete_booking(b.id, a)
                           /\ response'.code = 204
                           /\ bookings' = bookings \ {b})

\* C17 witness: a delete request was answered 400 and the booking, which
\* starts exactly now, is still stored.
C17_Witness ==
    /\ response = [op |-> "delete_booking", code |-> 400]
    /\ \E b \in bookings : b.start_time = now /\ UserRole[b.user_id] = "user"

\* C18: every stored review references a stored booking: deleting a
\* booking, directly or through the deletion of its service, deletes the
\* review attached to it.
C18_ReviewsReferenceBookings ==
    \A r \in reviews : \E b \in bookings : b.id = r.booking_id

\* C18 witness: a booking was just deleted after both bookings had been
\* reviewed, and the other booking and its review are still stored.
C18_Witness ==
    /\ response = [op |-> "delete_booking", code |-> 204]
    /\ next_review_id = 3 /\ next_booking_id = 3
    /\ Cardinality(bookings) = 1
    /\ Cardinality(reviews) = 1

\* what create_review answers, by its documented conditions: NotFound for a
\* booking that is not stored, Forbidden for a requester who is not the
\* owner, InvalidState for a booking that is not completed; no review is
\* persisted by a request that fails, and a request succeeds only for a
\* stored, completed booking of the requester.  Stated as: the handler takes
\* no step that answers otherwise.
CreateReviewRejections ==
    \A u \in Users, id \in BookingIds \cup {MaxBookings + 1}, r \in Ratings :
        ~ENABLED (/\ create_review(u, id, r)
                  /\ ~(/\ response'.code # 201 => reviews' = reviews
                       /\ response'.code = 201 =>
                             \E b \in bookings :
                                 b.id = id /\ b.user_id = u /\ b.status = COMPLETED
                       /\ IF get_by_id(id) = {}
                          THEN response'.code = 404
                          ELSE LET b == CHOOSE x \in bookings : x.id = id
                               IN  IF b.user_id # u THEN response'.code = 403
                                   ELSE b.status # COMPLETED =>
                                           /\ response'.code = 400
                                           /\ response'.detail = NotCompleted))

\* C19 as stated: create_review answers by its documented conditions, and
\* once an administrator has set a booking that was not completed to
\* completed, the owner's request for it succeeds.
C19_ReviewAfterCompletedSucceeds ==
    /\ []CreateReviewRejections
    /\ [][response'.op = "update_booking" =>
            \A b \in bookings, a \in Users :
                (/\ UserRole[a] = "admin"
                 /\ b.status # COMPLETED
                 /\ update_booking(b.id, a, None, COMPLETED))
                    => create_review_checks(b.user_id, b.id)'.code = 0]_vars

\* C19 amended: create_review answers by its documented conditions, and
\* once an administrator has set a booking that was not completed to
\* completed, the owner's request for it succeeds if the booking has no
\* review yet and is answered 400 "Review already exists" if it has one.
C19_ReviewAfterCompletedUnlessReviewed ==
    /\ []CreateReviewRejections
    /\ [][response'.op = "update_booking" =>
            \A b \in bookings, a \in Users :
                (/\ UserRole[a] = "admin"
                 /\ b.status # COMPLETED
                 /\ update_booking(b.id, a, None, COMPLETED))
                    => create_review_checks(b.user_id, b.id)' =
                          IF get_by_booking_id(b.id) = {}
                          THEN [code |-> 0, detail |-> ""]
                          ELSE [code |-> 400, detail |-> ReviewExists]]_vars

\* C19 witness: the owner's review of a completed booking was just created.
C19_Witness ==
    /\ response = [op |-> "create_review", code |-> 201, detail |-> ""]
    /\ \E r \in reviews, b \in bookings :
          /\ r.id = next_review_id - 1 /\ b.id = r.booking_id
          /\ b.status = COMPLETED /\ UserRole[b.user_id] = "user"

\* C20: each booking has at most one review, and a create_review request of
\* the owner for a completed booking that already has a review is answered
\* 400 "Review already exists" and changes no review, both when the review
\* is there at the request's check and when a concurrent request inserted
\* it between the check and the insert.
C20_OneReviewAlreadyExists ==
    /\ [](\A r1 \in reviews, r2 \in reviews :
             r1.booking_id = r2.booking_id => r1 = r2)
    /\ [][\A w \in Workers :
             /\ \A u \in Customers, id \in BookingIds, r \in Ratings :
                   (/\ get_by_booking_id(id) # {}
                    /\ \E b \in bookings :
                          b.id = id /\ b.user_id = u /\ b.status = COMPLETED
                    /\ create_review_check(w, u, id, r))
                       => /\ response' = [op |-> "create_review", code |-> 400,
                                          detail |-> ReviewExists]
                          /\ reviews' = reviews
             /\ (/\ review_inflight[w] # NoReview
                 /\ review_inflight'[w] = NoReview
                 /\ get_by_booking_id(review_inflight[w].booking_id) # {})
                    => /\ response' = [op |-> "create_review", code |-> 400,
                                       detail |-> ReviewExists]
                       /\ reviews' = reviews]_vars

\* the booking a stored review references
BookingOf(r) == CHOOSE b \in bookings : b.id = r.booking_id

\* C21: a review is updated only by the owner of the booking it references
\* (200, whatever the booking's status; only the rating given changes) and
\* deleted only by that owner or an administrator (204); any other
\* requester, an administrator who is not the owner included for update,
\* is answered 403 and no review changes.
C21_ReviewAccess ==
    \A r \in reviews, u \in Users :
        /\ \A rating \in Ratings \cup {None} :
              ENABLED (/\ update_review(r.id, u, rating)
                       /\ IF u = BookingOf(r).user_id
                          THEN /\ response'.code = 200
                               /\ reviews' = (reviews \ {r}) \cup
                                     {[r EXCEPT !.rating =
                                          IF rating = None THEN r.rating ELSE rating]}
                          ELSE response'.code = 403 /\ reviews' = reviews)
        /\ ENABLED (/\ delete_review(r.id, u)
                    /\ IF u = BookingOf(r).user_id \/ UserRole[u] = "admin"
                       THEN response'.code = 204 /\ reviews' = reviews \ {r}
                       ELSE response'.code = 403 /\ reviews' = reviews)

\* C21 witness: the only review ever created was just updated, its booking,
\* of an ordinary user, being no longer completed.
C21_Witness ==
    /\ response = [op |-> "update_review", code |-> 200, detail |-> ""]
    /\ next_review_id = 2
    /\ \E r \in reviews :
          /\ BookingOf(r).status # COMPLETED
          /\ UserRole[BookingOf(r).user_id] = "user"

\* C22: every booking request is all-or-nothing: a create, update or delete
\* of a booking that is answered with an error (a 4xx code) leaves the
\* stored bookings, services and reviews exactly as they were; in
\* particular a PATCH carrying both start_time and status that is refused
\* for its status part leaves start_time and end_time unchanged.
C22_AllOrNothing ==
    LET stored == <<services, bookings, reviews>> IN
    /\ \A u \in Users, s \in ServiceIds, t \in Times :
          ~ENABLED (/\ create_booking(u, s, t)
                    /\ response'.code >= 400
                    /\ <<services, bookings, reviews>>' # stored)
    /\ \A id \in BookingIds, u \in Users :
          /\ \A t \in Times \cup {None}, st \in BookingStatus \cup {NoStatus} :
                ~ENABLED (/\ update_booking(id, u, t, st)
                          /\ response'.code >= 400
                          /\ <<services, bookings, reviews>>' # stored)
          /\ ~ENABLED (/\ delete_booking(id, u)
                       /\ response'.code >= 400
                       /\ <<services, bookings, reviews>>' # stored)

\* C28: create_review reports the first failing check in the order: the
\* booking exists (404), the requester owns it (403), it is completed (400
\* "Can only review completed bookings"), it has no review yet (400 "Review
\* already exists"); so a requester who is not the owner is answered 403
\* whatever the booking's status and whether or not it has a review. A
\* rejected request stores nothing.
C28_CheckOrder ==
    \A u \in Users, id \in BookingIds \cup {MaxBookings + 1}, rating \in Ratings :
        ~ENABLED (/\ create_review(u, id, rating)
                  /\ ~(/\ response'.code # 201 => reviews' = reviews
                       /\ IF \A b \in bookings : b.id # id
                          THEN response'.code = 404 /\ response'.detail = BookingNotFound
                          ELSE IF \E b \in bookings : b.id = id /\ b.user_id # u
                          THEN response'.code = 403 /\ response'.detail = NotYourBooking
                          ELSE IF \E b \in bookings : b.id = id /\ b.status # COMPLETED
                          THEN response'.code = 400 /\ response'.detail = NotCompleted
                          ELSE IF \E r \in reviews : r.booking_id = id
                          THEN response'.code = 400 /\ response'.detail = ReviewExists
                          ELSE response'.code = 201))

\* C28 witness: the only booking ever created has a review and is no longer
\* completed, and a create_review for it by someone else was answered 403.
C28_Witness ==
    /\ response = [op |-> "create_review", code |-> 403, detail |-> NotYourBooking]
    /\ next_booking_id = 2
    /\ \E b \in bookings :
          /\ b.status # COMPLETED
          /\ \E r \in reviews : r.booking_id = b.id

\* C27 as stated: every stored review references a booking whose status is
\* completed, whatever status changes followed the review's creation.
C27_ReviewedIsCompleted ==
    \A r \in reviews : BookingOf(r).status = COMPLETED

\* C27 amended: a review is stored only for a booking that is completed
\* when the review is created, and a reviewed booking leaves completed only
\* by an administrator's successful status update, never by a request of a
\* user who is not an administrator.
C27_ReviewedWasCompleted ==
    /\ [][\A r \in reviews' :
             (\A q \in reviews : q.id # r.id) =>
                 \E b \in bookings \cap bookings' :
                     b.id = r.booking_id /\ b.status = COMPLETED]_vars
    /\ [][\A r \in reviews, c \in bookings' :
             (/\ c.id = r.booking_id
              /\ BookingOf(r).status = COMPLETED
              /\ c.status # COMPLETED)
                 => /\ response' = [op |-> "update_booking", code |-> 200]
                    /\ \E a \in Users :
                          /\ UserRole[a] = "admin"
                          /\ update_booking(c.id, a, None, c.status)
                    /\ ~\E u \in Users, st \in BookingStatus \cup {NoStatus} :
                          /\ UserRole[u] # "admin"
                          /\ update_booking(c.id, u, None, st)]_vars

\* C27 witness: a status update has just succeeded and a stored review is
\* attached to a booking that is no longer completed.
C27_Witness ==
    /\ response = [op |-> "update_booking", code |-> 200]
    /\ \E r \in reviews : BookingOf(r).status \in {PENDING, CONFIRMED, CANCELLED}

\* the requested window [t, t + duration) of a reschedule of b overlaps b's
\* own stored window and no other pending or confirmed booking of the service
OverlapsOnlyOwn(b, t) ==
    /\ Overlap(b.start_time, b.end_time, t, t + DurationOf(b.service_id))
    /\ ~Busy(b.service_id, t, t + DurationOf(b.service_id), b.id)

\* a reschedule of b to start t leaves b's start_time and end_time as stored
\* when t is b's start_time and the service's duration is b's length
SameWindow(b, t) ==
    (t = b.start_time /\ b.end_time - b.start_time = DurationOf(b.service_id))
        => \E c \in bookings' :
               c.id = b.id /\ c.start_time = b.start_time /\ c.end_time = b.end_time

\* C26 as stated: the owner's reschedule of a pending or confirmed booking
\* to a start whose window overlaps only the booking's own old window
\* succeeds, and a reschedule to the current start_time with an unchanged
\* duration leaves start_time and end_time as they were.
C26_OwnWindowNeverBlocks ==
    \A b \in bookings, t \in Times :
        Active(b) =>
            ENABLED (/\ update_booking(b.id, b.user_id, t, NoStatus)
                     /\ OverlapsOnlyOwn(b, t) =>
                           /\ response'.code = 200
                           /\ \E c \in bookings' :
                                 /\ c.id = b.id /\ c.start_time = t
                                 /\ c.end_time = t + DurationOf(b.service_id)
                     /\ SameWindow(b, t))

\* C26 amended: as stated for a requested start that is not in the past; a
\* start in the past is refused with 422 and the booking is unchanged.
C26_OwnWindowNeverBlocksFutureStart ==
    \A b \in bookings, t \in Times :
        Active(b) =>
            ENABLED (/\ update_booking(b.id, b.user_id, t, NoStatus)
                     /\ OverlapsOnlyOwn(b, t) =>
                           IF t >= now
                           THEN /\ response'.code = 200
                                /\ \E c \in bookings' :
                                      /\ c.id = b.id /\ c.start_time = t
                                      /\ c.end_time = t + DurationOf(b.service_id)
                           ELSE response'.code = 422 /\ bookings' = bookings
                     /\ SameWindow(b, t))

\* C26 witness: the only booking ever created, two minutes long on a service
\* of that duration, was rescheduled and starts a minute after the present.
C26_Witness ==
    /\ response = [op |-> "update_booking", code |-> 200]
    /\ next_booking_id = 2
    /\ \E b \in bookings :
          /\ Active(b) /\ UserRole[b.user_id] = "user"
          /\ b.start_time = 1 /\ b.end_time = 3
          /\ DurationOf(b.service_id) = 2

\* no update of a service, whatever fields it carries, changes a booking
ServiceUpdateKeepsBookings ==
    \A a \in Users, s \in ServiceIds, d \in Durations \cup {None},
       act \in {"unset", "true", "false"} :
        ~ENABLED (update_service(a, s, d, act) /\ bookings' # bookings)

\* C25: updating a service's duration_minutes or active flag leaves every
\* booking's start_time, end_time and status unchanged, and a stored
\* booking's end_time changes only through a successful reschedule of that
\* booking: a PATCH of it by its owner carrying start_time, answered 200.
C25_EndTimeOnlyByReschedule ==
    /\ []ServiceUpdateKeepsBookings
    /\ [][\A b \in bookings, c \in bookings' :
             (c.id = b.id /\ c.end_time # b.end_time) =>
                 /\ response' = [op |-> "update_booking", code |-> 200]
                 /\ \E st \in BookingStatus \cup {NoStatus} :
                       update_booking(b.id, b.user_id, c.start_time, st)]_vars

\* C23: GET /bookings is scoped by role: a caller who is not an
\* administrator receives exactly their own stored bookings that match the
\* status, from and to filters given, never a booking of another user; an
\* administrator receives every stored booking that matches.
C23_ListingScopedByRole ==
    \A u \in Users, st \in BookingStatus \cup {NoStatus},
       from_date \in Times \cup {None}, to_date \in Times \cup {None} :
        LET Matches(b) == /\ st = NoStatus \/ b.status = st
                          /\ from_date = None \/ from_date <= b.start_time
                          /\ to_date = None \/ b.start_time <= to_date
        IN  ENABLED (/\ get_bookings(u, st, from_date, to_date)
                     /\ response'.code = 200
                     /\ IF UserRole[u] = "admin"
                        THEN response'.body = {b \in bookings : Matches(b)}
                        ELSE /\ \A b \in response'.body : b.user_id = u
                             /\ \A b \in bookings :
                                   b \in response'.body <=> (b.user_id = u /\ Matches(b)))

\* C23 witness: a listing returned bookings of an ordinary user only, while
\* a booking of someone else with the status and start_time of a returned
\* one, which every filter treats alike, is stored.
C23_Witness ==
    /\ response.op = "get_bookings"
    /\ response.body # {}
    /\ \A b \in response.body : UserRole[b.user_id] = "user"
    /\ \E b \in response.body, c \in bookings :
          /\ c.user_id # b.user_id
          /\ c.status = b.status /\ c.start_time = b.start_time

\* C24: whatever register and profile-update requests were handled, no two
\* stored users share an email; a register with an email already registered
\* is answered 400 "Email already registered" and creates no user; a profile
\* update to an email another user holds is answered 400 and changes
\* nothing of the profile.
C24_EmailsUnique ==
    /\ \A u \in users, v \in users : u.id # v.id => u.email # v.email
    /\ \A v \in users, name \in Names :
          ~ENABLED (/\ register(name, v.email)
                    /\ ~(/\ response'.code = 400
                         /\ response'.detail = EmailRegistered
                         /\ users' = users))
    /\ \A u \in users, v \in users, name \in Names \cup {Unset} :
          u.id # v.id =>
              ~ENABLED (/\ update_current_user(u.id, name, v.email)
                        /\ ~(/\ response'.code = 400
                             /\ users' = users))

\* C24 witness: three users are registered and a profile update was just
\* refused with "Email already in use".
C24_Witness ==
    /\ response = [op |-> "update_current_user", code |-> 400, detail |-> EmailInUse]
    /\ Cardinality(users) = 3
====
